---- MODULE Spec2Model ----
(***************************************************************************)
(* Sync strategies of awscli/customizations/s3/syncstrategy/base.py:       *)
(* SyncResponse, BaseSync (comparators and strategy selection) and the     *)
(* three concrete strategies SizeAndLastModifiedSync, NeverSync and        *)
(* MissingFileSync.                                                        *)
(*                                                                         *)
(* Python values are modelled as records so that values of different       *)
(* Python types can be compared: None is [tag |-> "None"], a str is        *)
(* [chars |-> <<c1, ..., cn>>], a bool-or-None result is [bool |-> b] or   *)
(* None, a datetime is its number of microseconds since an epoch.  The     *)
(* interpreter is Python 3 (SyncResponse defines __bool__, and `/` in      *)
(* total_seconds is true division).                                        *)
(***************************************************************************)
EXTENDS Integers, Sequences, FiniteSets, TLC

VARIABLES self, src_file, dest_file, params, last

vars == <<self, src_file, dest_file, params, last>>

(***************************************************************************)
(* Bounds of the model.                                                    *)
(***************************************************************************)
MaxSize == 1
MaxTime == 2
TimeStep == 500000
MaxGrants == 3
MaxDecideGrants == 1
MaxNameLen == 2
MaxParams == 1

(***************************************************************************)
(* Python values.                                                          *)
(***************************************************************************)
None == [tag |-> "None"]

Bool(b) == [bool |-> b]

\* Python's `not x` for x a bool or None.
Not(x) == IF x = None THEN TRUE ELSE ~x.bool

Str(s) == [chars |-> s]

\* str.replace(old, new) for one-character old and new.
replace(s, old, new) ==
    Str([i \in 1..Len(s.chars) |-> IF s.chars[i] = old THEN new ELSE s.chars[i]])

\* dict.get(key) with the default None, for a dict of bools.
dict_get(d, key) == IF key \in DOMAIN d THEN Bool(d[key]) ELSE None

Return(v) == [return |-> v]

Raise(e) == [raise |-> e]

(***************************************************************************)
(* Module level and SyncResponse.                                          *)
(***************************************************************************)
VALID_SYNC_TYPES == {"file_at_src_and_dest", "file_not_at_dest", "file_not_at_src"}

SyncResponse(sync_object, sync_acl) ==
    [sync_object |-> sync_object, sync_acl |-> sync_acl]

SyncResponse_bool(r) == r.sync_object \/ r.sync_acl

(***************************************************************************)
(* BaseSync: argument descriptor and strategy selection.                   *)
(***************************************************************************)
arg_name(strategy) ==
    IF strategy.ARGUMENT # None THEN strategy.ARGUMENT.name ELSE None

arg_dest(strategy) ==
    IF strategy.ARGUMENT # None THEN strategy.ARGUMENT.dest ELSE None

name_in_params(strategy) ==
    IF arg_dest(strategy) # None THEN arg_dest(strategy)
    ELSE IF arg_name(strategy) # None THEN replace(arg_name(strategy), "-", "_")
    ELSE None

use_sync_strategy_nodest(strategy, p) ==
    LET name == IF arg_name(strategy) # None
                THEN replace(arg_name(strategy), "-", "_") ELSE None
    IN  IF name # None /\ ~Not(dict_get(p, name)) THEN strategy ELSE None

use_sync_strategy(strategy, p) ==
    IF name_in_params(strategy) # None
       /\ ~Not(dict_get(p, name_in_params(strategy)))
    THEN strategy
    ELSE None

(***************************************************************************)
(* BaseSync: comparators.                                                  *)
(***************************************************************************)
SecondsPerDay == 24 * 3600
MicrosPerSecond == 10^6

\* datetime - datetime: a normalised timedelta (0 <= seconds < 86400,
\* 0 <= microseconds < 10^6, days of either sign).
timedelta(us) ==
    LET s == us \div MicrosPerSecond
    IN  [days |-> s \div SecondsPerDay,
         seconds |-> s % SecondsPerDay,
         microseconds |-> us % MicrosPerSecond]

\* The quotient as a fraction num/den with den > 0; true division keeps
\* the sign of the numerator.
total_seconds(td) ==
    [num |-> td.microseconds + (td.seconds + td.days * 24 * 3600) * 10^6,
     den |-> 10^6]

compare_size(src, dest) == src.size = dest.size

compare_time_strict(src, dest) ==
    LET delta == timedelta(dest.last_update - src.last_update)
        cmd == src.operation_name
    IN  IF cmd = "upload" \/ cmd = "copy"
        THEN Bool(total_seconds(delta).num > 0)
        ELSE IF cmd = "download"
        THEN Bool(total_seconds(delta).num <= 0)
        ELSE None

compare_time(src, dest) ==
    LET delta == timedelta(dest.last_update - src.last_update)
        cmd == src.operation_name
    IN  IF cmd = "upload" \/ cmd = "copy"
        THEN Bool(total_seconds(delta).num >= 0)
        ELSE IF cmd = "download"
        THEN Bool(total_seconds(delta).num <= 0)
        ELSE None

\* Python orders permission names as strings ("READ" < "WRITE").
PermissionRank(p) == IF p = "READ" THEN 1 ELSE 2

\* list.sort(key=lambda x: x.get('Permission', '')): a stable sort.
RECURSIVE sort_by_permission(_)
sort_by_permission(grants) ==
    IF grants = <<>> THEN <<>>
    ELSE LET head == Head(grants)
             rest == sort_by_permission(Tail(grants))
             before == SelectSeq(rest, LAMBDA g:
                           PermissionRank(g.Permission) < PermissionRank(head.Permission))
             after == SelectSeq(rest, LAMBDA g:
                           PermissionRank(g.Permission) >= PermissionRank(head.Permission))
         IN  before \o <<head>> \o after

\* awscli.customizations.s3.utils.separate_owner_grants: the grants whose
\* grantee id is the owner's id, and the remaining grants, each in order.
separate_owner_grants(grants, owner_id) ==
    <<SelectSeq(grants, LAMBDA g: g.Grantee.ID = owner_id),
      SelectSeq(grants, LAMBDA g: g.Grantee.ID # owner_id)>>

compare_acl(src, dest) ==
    IF src.acl_response_data = None \/ dest.acl_response_data = None
    THEN TRUE
    ELSE
      LET src_sep == separate_owner_grants(src.acl_response_data.Grants,
                                           src.acl_response_data.Owner.ID)
          dest_sep == separate_owner_grants(dest.acl_response_data.Grants,
                                            dest.acl_response_data.Owner.ID)
          src_owner_grants == sort_by_permission(src_sep[1])
          dest_owner_grants == sort_by_permission(dest_sep[1])
          src_other_grants == src_sep[2]
          dest_other_grants == dest_sep[2]
          \* are_equal after the owner block; it stays False when either
          \* side has no owner grant.
          owner_equal ==
              IF src_sep[1] # <<>> /\ dest_sep[1] # <<>>
              THEN /\ Len(src_sep[1]) = Len(dest_sep[1])
                   /\ \A i \in 1..Len(src_owner_grants) :
                        src_owner_grants[i].Permission = dest_owner_grants[i].Permission
              ELSE FALSE
      IN  IF owner_equal
          THEN /\ Len(src_other_grants) = Len(dest_other_grants)
               /\ \A i \in 1..Len(src_other_grants) :
                    \E j \in 1..Len(dest_other_grants) :
                        dest_other_grants[j] = src_other_grants[i]
          ELSE FALSE

(***************************************************************************)
(* The concrete strategies.  Reading an attribute of an absent (None)      *)
(* record raises AttributeError.                                           *)
(***************************************************************************)
SizeAndLastModifiedSync_and(src, dest, include_acl) ==
    IF src = None \/ dest = None THEN Raise("AttributeError")
    ELSE LET same_size == compare_size(src, dest)
             same_last_modified_time == compare_time(src, dest)
             object_should_sync == (~same_size) /\ Not(same_last_modified_time)
             acl_should_sync == IF include_acl THEN ~compare_acl(src, dest) ELSE FALSE
         IN  Return(SyncResponse(object_should_sync, acl_should_sync))

SizeAndLastModifiedSync_always_acl(src, dest, include_acl) ==
    IF src = None \/ dest = None THEN Raise("AttributeError")
    ELSE LET same_size == compare_size(src, dest)
             same_last_modified_time == compare_time(src, dest)
             object_should_sync == (~same_size) \/ Not(same_last_modified_time)
             acl_should_sync == ~compare_acl(src, dest)
         IN  Return(SyncResponse(object_should_sync, acl_should_sync))

SizeAndLastModifiedSync_determine_should_sync(src, dest, include_acl) ==
    IF src = None \/ dest = None THEN Raise("AttributeError")
    ELSE LET same_size == compare_size(src, dest)
             same_last_modified_time == compare_time(src, dest)
             object_should_sync == (~same_size) \/ Not(same_last_modified_time)
             acl_should_sync == IF include_acl THEN ~compare_acl(src, dest) ELSE FALSE
         IN  Return(SyncResponse(object_should_sync, acl_should_sync))

NeverSync_pass_acl(src, dest, include_acl) ==
    Return(SyncResponse(FALSE, include_acl))

NeverSync_determine_should_sync(src, dest, include_acl) ==
    Return(SyncResponse(FALSE, FALSE))

MissingFileSync_no_acl(src, dest, include_acl) ==
    IF src = None THEN Raise("AttributeError")
    ELSE Return(SyncResponse(TRUE, FALSE))

\* LOG.debug's arguments src_file.src and src_file.dest are evaluated
\* before the call.
MissingFileSync_determine_should_sync(src, dest, include_acl) ==
    IF src = None THEN Raise("AttributeError")
    ELSE Return(SyncResponse(TRUE, include_acl))

\* BaseSync.determine_should_sync, dispatched on the strategy's class.
determine_should_sync(strategy, src, dest) ==
    IF strategy.cls = "SizeAndLastModifiedSync"
    THEN SizeAndLastModifiedSync_determine_should_sync(src, dest, strategy.include_acl)
    ELSE IF strategy.cls = "NeverSync"
    THEN NeverSync_determine_should_sync(src, dest, strategy.include_acl)
    ELSE MissingFileSync_determine_should_sync(src, dest, strategy.include_acl)

(***************************************************************************)
(* Inputs: file records (FileStat), ACL responses, argument descriptors    *)
(* and parameter dictionaries.                                             *)
(***************************************************************************)
OperationNames == {"upload", "download", "copy", "delete"}

\* The destination listing carries no operation of its own.
DestOperationNames == {""}

Ids == {"o1", "o2"}

Permissions == {"READ", "WRITE"}

GrantSet == [Grantee : [ID : Ids], Permission : Permissions]

GrantLists(n) == UNION {[1..k -> GrantSet] : k \in 0..n}

AclData(n) == [Owner : [ID : Ids], Grants : GrantLists(n)]

Sizes == 0..MaxSize

Times == {k * TimeStep : k \in 0..MaxTime}

Grant(id, permission) == [Grantee |-> [ID |-> id], Permission |-> permission]

AclSamples ==
    {None,
     [Owner |-> [ID |-> "o1"], Grants |-> <<Grant("o1", "READ")>>],
     [Owner |-> [ID |-> "o1"], Grants |-> <<Grant("o1", "WRITE")>>]}

FileStats(sizes, times, operation_names, acls) ==
    [size : sizes, last_update : times, operation_name : operation_names,
     acl_response_data : acls]

Classes == {"SizeAndLastModifiedSync", "NeverSync", "MissingFileSync"}

\* BaseSync.__init__: a valid sync_type, include_acl False.
Strategies(classes, sync_types, arguments) ==
    [cls : classes, sync_type : sync_types, include_acl : {FALSE},
     ARGUMENT : arguments]

NameChars == {"a", "-"}

KeyChars == {"a", "-", "_"}

Names == {Str(s) : s \in UNION {[1..k -> NameChars] : k \in 0..MaxNameLen}}

Keys == {Str(s) : s \in UNION {[1..k -> KeyChars] : k \in 0..MaxNameLen}}

Dests == {None, Str(<<"a">>), Str(<<"-">>)}

Arguments == {None} \cup [name : Names \cup {None}, dest : Dests]

\* The subsets of S with at most n elements.
RECURSIVE SubsetsUpTo(_, _)
SubsetsUpTo(S, n) ==
    IF n = 0 THEN {{}}
    ELSE LET smaller == SubsetsUpTo(S, n - 1)
         IN  smaller \cup {K \cup {x} : K \in smaller, x \in S}

ParamDicts == UNION {[D -> BOOLEAN] : D \in SubsetsUpTo(Keys, MaxParams)}

NoCall == [op |-> "none", include_acl |-> FALSE, result |-> None]

(***************************************************************************)
(* Initial states: a constructed strategy and the arguments of the calls.  *)
(***************************************************************************)
InitSync ==
    /\ self \in Strategies(Classes, VALID_SYNC_TYPES, {None})
    /\ src_file \in {None} \cup FileStats(Sizes, Times, OperationNames, AclSamples)
    /\ dest_file \in {None} \cup FileStats(Sizes, Times, DestOperationNames, AclSamples)
    /\ params = <<>>
    /\ last = NoCall

InitAcl ==
    /\ self \in Strategies({"SizeAndLastModifiedSync"}, {"file_at_src_and_dest"}, {None})
    /\ src_file \in FileStats({0}, {0}, {"upload"}, {None} \cup AclData(MaxGrants))
    /\ dest_file \in FileStats({0}, {0}, {"upload"}, {None} \cup AclData(MaxGrants))
    /\ params = <<>>
    /\ last = NoCall

InitDecide ==
    /\ self \in Strategies({"SizeAndLastModifiedSync"}, {"file_at_src_and_dest"}, {None})
    /\ src_file \in FileStats(Sizes, Times, OperationNames,
                              {None} \cup AclData(MaxDecideGrants))
    /\ dest_file \in FileStats(Sizes, {TimeStep}, DestOperationNames,
                               {None} \cup AclData(MaxDecideGrants))
    /\ params = <<>>
    /\ last = NoCall

InitSelect ==
    /\ self \in Strategies(Classes, {"file_at_src_and_dest"}, Arguments)
    /\ src_file = None
    /\ dest_file = None
    /\ params \in ParamDicts
    /\ last = NoCall

(***************************************************************************)
(* Operations.  `last` records the last call: the operation, the value of  *)
(* include_acl it read and how it ended.                                   *)
(***************************************************************************)
Call(op, result) ==
    last' = [op |-> op, include_acl |-> self.include_acl, result |-> result]

CompareSize ==
    /\ Call("compare_size",
            IF src_file = None \/ dest_file = None THEN Raise("AttributeError")
            ELSE Return(Bool(compare_size(src_file, dest_file))))
    /\ UNCHANGED <<self, src_file, dest_file, params>>

CompareTime ==
    /\ Call("compare_time",
            IF src_file = None \/ dest_file = None THEN Raise("AttributeError")
            ELSE Return(compare_time(src_file, dest_file)))
    /\ UNCHANGED <<self, src_file, dest_file, params>>

CompareAcl ==
    /\ Call("compare_acl",
            IF src_file = None \/ dest_file = None THEN Raise("AttributeError")
            ELSE Return(Bool(compare_acl(src_file, dest_file))))
    /\ UNCHANGED <<self, src_file, dest_file, params>>

DetermineShouldSync ==
    /\ Call("determine_should_sync", determine_should_sync(self, src_file, dest_file))
    /\ UNCHANGED <<self, src_file, dest_file, params>>

UseSyncStrategy ==
    /\ Call("use_sync_strategy", Return(use_sync_strategy(self, params)))
    /\ UNCHANGED <<self, src_file, dest_file, params>>

\* The caller sets the public attribute include_acl of the strategy.
SetIncludeAcl ==
    /\ \E b \in BOOLEAN : self' = [self EXCEPT !.include_acl = b]
    /\ UNCHANGED <<src_file, dest_file, params, last>>

NextSync == CompareSize \/ CompareTime \/ DetermineShouldSync \/ SetIncludeAcl

NextAcl == CompareAcl \/ DetermineShouldSync \/ SetIncludeAcl

NextDecide == CompareAcl \/ DetermineShouldSync \/ SetIncludeAcl

NextSelect == UseSyncStrategy

SpecSync == InitSync /\ [][NextSync]_vars

SpecAcl == InitAcl /\ [][NextAcl]_vars

SpecDecide == InitDecide /\ [][NextDecide]_vars

SpecSelect == InitSelect /\ [][NextSelect]_vars

(***************************************************************************)
(* Properties.                                                             *)
(***************************************************************************)
BothPresent == src_file # None /\ dest_file # None

DecidedBy(cls) == last.op = "determine_should_sync" /\ self.cls = cls

Returned == "return" \in DOMAIN last.result

Raised == "raise" \in DOMAIN last.result

TransferKinds == {"upload", "download", "copy"}

\* C1: for present records with operation kind upload, download or copy,
\* SizeAndLastModifiedSync returns sync_object = NOT compare_size OR NOT
\* compare_time: false when the sizes are equal and compare_time reports
\* "no update needed", true whenever the sizes differ.
C1_SizeAndTimeDecideTransfer ==
    (DecidedBy("SizeAndLastModifiedSync") /\ BothPresent
        /\ src_file.operation_name \in TransferKinds) =>
      /\ Returned
      /\ LET same_size == src_file.size = dest_file.size
             no_update == compare_time(src_file, dest_file) = Bool(TRUE)
             sync_object == last.result.return.sync_object
         IN  /\ sync_object = ((~same_size) \/ (~no_update))
             /\ (same_size /\ no_update) => ~sync_object
             /\ (~same_size) => sync_object

C1_Witness ==
    /\ DecidedBy("SizeAndLastModifiedSync") /\ BothPresent /\ Returned
    /\ src_file.operation_name = "download"
    /\ src_file.size # dest_file.size
    /\ compare_time(src_file, dest_file) = Bool(TRUE)
    /\ last.result.return.sync_object

\* C2: compare_time returns true for upload and copy iff the destination's
\* timestamp minus the source's is >= 0, for download iff it is <= 0; equal
\* timestamps never need an update.
C2_CompareTimePolarity ==
    (last.op = "compare_time" /\ BothPresent) =>
      LET d == dest_file.last_update - src_file.last_update
          cmd == src_file.operation_name
      IN  /\ cmd \in {"upload", "copy"} => last.result = Return(Bool(d >= 0))
          /\ cmd = "download" => last.result = Return(Bool(d <= 0))
          /\ (cmd \in TransferKinds /\ d = 0) => last.result = Return(Bool(TRUE))

C2_Witness ==
    /\ last.op = "compare_time" /\ BothPresent
    /\ src_file.operation_name = "download"
    /\ dest_file.last_update > src_file.last_update
    /\ dest_file.last_update - src_file.last_update < MicrosPerSecond
    /\ last.result = Return(Bool(FALSE))

\* C3: MissingFileSync with the destination absent returns sync_object =
\* true and sync_acl = the include_acl flag read by the call, whatever the
\* source record is.
C3_MissingFileAlwaysTransfers ==
    (DecidedBy("MissingFileSync") /\ src_file # None /\ dest_file = None) =>
      last.result = Return(SyncResponse(TRUE, last.include_acl))

C3_Witness ==
    /\ DecidedBy("MissingFileSync") /\ src_file # None /\ dest_file = None
    /\ last.include_acl /\ ~self.include_acl
    /\ Returned /\ last.result.return.sync_acl /\ last.result.return.sync_object

\* C4: NeverSync returns {false, false} for every input pair, every
\* sync_type and both values of include_acl; the response is falsy.
C4_NeverSyncNeverSyncs ==
    DecidedBy("NeverSync") =>
      /\ last.result = Return(SyncResponse(FALSE, FALSE))
      /\ ~SyncResponse_bool(last.result.return)

C4_Witness ==
    /\ DecidedBy("NeverSync") /\ BothPresent /\ last.include_acl
    /\ self.sync_type = "file_at_src_and_dest"
    /\ src_file.acl_response_data # None /\ dest_file.acl_response_data # None
    /\ src_file.acl_response_data # dest_file.acl_response_data
    /\ src_file.size # dest_file.size
    /\ last.result = Return(SyncResponse(FALSE, FALSE))

\* C5: for present records SizeAndLastModifiedSync returns sync_acl = NOT
\* compare_acl when include_acl is set and false otherwise, whatever the
\* sizes and timestamps; sync_object is decided by size and time alone.
C5_AclDecision ==
    (DecidedBy("SizeAndLastModifiedSync") /\ BothPresent) =>
      /\ Returned
      /\ last.result.return.sync_acl =
            (last.include_acl /\ ~compare_acl(src_file, dest_file))
      /\ last.result.return.sync_object =
            ((src_file.size # dest_file.size)
                \/ Not(compare_time(src_file, dest_file)))

C5_Witness ==
    /\ DecidedBy("SizeAndLastModifiedSync") /\ BothPresent /\ Returned
    /\ last.include_acl
    /\ src_file.acl_response_data # None /\ dest_file.acl_response_data # None
    /\ ~compare_acl(src_file, dest_file)
    /\ last.result.return.sync_acl
    /\ ~last.result.return.sync_object

\* C6: compare_acl(f, f) is true for every record f with ACL data.
C6_CompareAclReflexive ==
    (last.op = "compare_acl" /\ BothPresent /\ src_file = dest_file
        /\ src_file.acl_response_data # None) =>
      last.result = Return(Bool(TRUE))

OwnerGrantsOf(file) ==
    separate_owner_grants(file.acl_response_data.Grants,
                          file.acl_response_data.Owner.ID)[1]

OtherGrantsOf(file) ==
    separate_owner_grants(file.acl_response_data.Grants,
                          file.acl_response_data.Owner.ID)[2]

OwnerGrantsEqual(a, b) ==
    /\ Len(OwnerGrantsOf(a)) = Len(OwnerGrantsOf(b))
    /\ \A i \in 1..Len(OwnerGrantsOf(a)) :
          sort_by_permission(OwnerGrantsOf(a))[i].Permission
            = sort_by_permission(OwnerGrantsOf(b))[i].Permission

OtherGrantsEqual(a, b) ==
    /\ Len(OtherGrantsOf(a)) = Len(OtherGrantsOf(b))
    /\ \A i \in 1..Len(OtherGrantsOf(a)) :
          \E j \in 1..Len(OtherGrantsOf(b)) : OtherGrantsOf(b)[j] = OtherGrantsOf(a)[i]

\* C7: compare_acl is true exactly when a side lacks ACL data, or the owner
\* grants have the same count and the same sorted permissions and the other
\* grants have the same count with every source grant found at the
\* destination.
C7_CompareAclExact ==
    (last.op = "compare_acl" /\ BothPresent) =>
      last.result = Return(Bool(
          \/ src_file.acl_response_data = None
          \/ dest_file.acl_response_data = None
          \/ (OwnerGrantsEqual(src_file, dest_file)
                /\ OtherGrantsEqual(src_file, dest_file))))

\* C8: determine_should_sync with both records absent ends in an error for
\* each strategy.
C8_BothAbsentFailsFast ==
    (last.op = "determine_should_sync" /\ src_file = None /\ dest_file = None) =>
      Raised

KeyOf(name) ==
    Str([i \in 1..Len(name.chars) |->
            IF name.chars[i] = "-" THEN "_" ELSE name.chars[i]])

IsSet(key) == key \in DOMAIN params /\ params[key]

\* C9 as stated: a strategy declaring the name N is returned iff params maps
\* N with '-' replaced by '_' to true; a strategy with no argument is never
\* returned.
C9_SelectedByName ==
    (last.op = "use_sync_strategy") =>
      /\ (self.ARGUMENT # None /\ self.ARGUMENT.name # None) =>
            last.result =
              Return(IF IsSet(KeyOf(self.ARGUMENT.name)) THEN self ELSE None)
      /\ self.ARGUMENT = None => last.result = Return(None)

C9_LookupKey ==
    IF self.ARGUMENT = None THEN None
    ELSE IF self.ARGUMENT.dest # None THEN self.ARGUMENT.dest
    ELSE IF self.ARGUMENT.name # None THEN KeyOf(self.ARGUMENT.name)
    ELSE None

C9_Selected ==
    (last.op = "use_sync_strategy") =>
      last.result =
        Return(IF C9_LookupKey # None /\ IsSet(C9_LookupKey) THEN self ELSE None)

\* C9 amended: the key looked up in params is the argument's dest, verbatim,
\* when one is declared, and otherwise its name with '-' replaced by '_';
\* the strategy is returned iff params maps that key to true, and none is
\* returned otherwise or when no key is declared.  The call changes neither
\* params nor the strategy.
C9_SelectedByDestOrName ==
    /\ []C9_Selected
    /\ [][UseSyncStrategy => (self' = self /\ params' = params)]_vars

C9_Witness ==
    /\ last.op = "use_sync_strategy"
    /\ self.ARGUMENT # None
    /\ self.ARGUMENT.dest # None /\ self.ARGUMENT.name # None
    /\ self.ARGUMENT.name # KeyOf(self.ARGUMENT.name)
    /\ ~IsSet(KeyOf(self.ARGUMENT.name))
    /\ IsSet(self.ARGUMENT.dest)
    /\ last.result = Return(self)

\* C10: compare_acl(a, b) = compare_acl(b, a) for records that both carry
\* ACL data.
C10_CompareAclSymmetric ==
    (last.op = "compare_acl" /\ BothPresent
        /\ src_file.acl_response_data # None
        /\ dest_file.acl_response_data # None) =>
      last.result = Return(Bool(compare_acl(dest_file, src_file)))

====
